---- MODULE Spec2Model ----
(***************************************************************************)
(* A model of the PDF redaction pipelines of data-rakshak:                 *)
(*   - presidio-analyzer/new_pdf_redactor.py  (chunked, parallel variant)  *)
(*   - presidio-analyzer/pdf_redactor.py      (sequential variant)         *)
(*   - guardian-analyzer/new_pdf_redactor.py  (annotation-based variant)   *)
(* A text is a sequence of lexemes: single characters in the chunker's own *)
(* specification, and words, separators and blanks in the pipeline's, each *)
(* lexeme standing for the characters it is written with.  Python's        *)
(* 0-based indices and half-open slices are kept, and translated to TLA+'s *)
(* 1-based sequences inside Slice, SliceFrom and RFind only.               *)
(***************************************************************************)
EXTENDS Integers, Sequences, FiniteSets, TLC

\* ------------------------------------------------------------------ bounds
\* Longest page text of the chunker's input documents.
MaxPageLen == 3
\* Largest chunk-size limit tried (CHUNK_SIZE is 900000 in the source; the
\* loop only compares lengths with it, so it is scaled down).
MaxChunkSize == 3
\* The while loop may append chunks without consuming text; iterations are
\* cut off once this many chunks exist.
MaxChunks == 8
\* How many calls of the external capabilities may raise in one behaviour.
MaxFaults == 1

\* ------------------------------------------------------- python primitives
Min(a, b) == IF a <= b THEN a ELSE b

SetMax(S) == CHOOSE x \in S : \A y \in S : y <= x

\* s[a:b] for 0 <= a, 0 <= b (Python clamps b to len(s)).
Slice(s, a, b) == SubSeq(s, a + 1, Min(b, Len(s)))

\* s[a:]
SliceFrom(s, a) == SubSeq(s, a + 1, Len(s))

\* s.rfind(c, start, end): the highest 0-based index i, start <= i < end, with
\* s[i] = c, or -1.
RFind(s, c, start, end) ==
    LET I == {i \in start..(Min(end, Len(s)) - 1) : s[i + 1] = c}
    IN  IF I = {} THEN -1 ELSE SetMax(I)

RECURSIVE Flatten(_)
\* "".join(seqs)
Flatten(seqs) == IF seqs = <<>> THEN <<>> ELSE Head(seqs) \o Flatten(Tail(seqs))

RECURSIVE SortedSeq(_)
\* the elements of a set of integers, ascending
SortedSeq(S) ==
    IF S = {} THEN <<>>
    ELSE LET m == CHOOSE x \in S : \A y \in S : x <= y
         IN  <<m>> \o SortedSeq(S \ {m})

Range(f) == {f[i] : i \in DOMAIN f}

\* the listings of a collection that keeps one of its elements twice
ListingsWithRepeats(S) ==
    {f \in [1..(Cardinality(S) + 1) -> S] : Range(f) = S}

\* every order in which a set can be listed: list(a_set)
Listings(S) ==
    {f \in [1..Cardinality(S) -> S] : \A i, j \in DOMAIN f : f[i] = f[j] => i = j}

RECURSIVE FindAll(_, _, _)
\* re.finditer(re.escape(needle), text) from index `from` on: the start
\* indices of the leftmost, non-overlapping occurrences of needle.
FindAll(text, needle, from) ==
    IF needle = <<>> \/ from + Len(needle) > Len(text) THEN <<>>
    ELSE IF Slice(text, from, from + Len(needle)) = needle
         THEN <<from>> \o FindAll(text, needle, from + Len(needle))
         ELSE FindAll(text, needle, from + 1)

RECURSIVE CharLen(_)
\* len() in characters of a text given in lexemes
CharLen(text) == IF text = <<>> THEN 0 ELSE Len(Head(text)) + CharLen(Tail(text))

Blank == " "

Whitespace == {" ", "\n"}

RECURSIVE LStrip(_)
LStrip(text) ==
    IF text # <<>> /\ Head(text) \in Whitespace THEN LStrip(Tail(text)) ELSE text

RECURSIVE RStrip(_)
RStrip(text) ==
    IF text # <<>> /\ text[Len(text)] \in Whitespace
    THEN RStrip(SubSeq(text, 1, Len(text) - 1)) ELSE text

\* str.strip()
Strip(text) == RStrip(LStrip(text))

\* ------------------------------------------------------------- the chunker
\* analyze_document, lines 55-64: the split position for one iteration.
SplitPosWholeText(full, L) ==
    LET dot == RFind(full, ".", 0, Len(full))
        nl  == RFind(full, "\n", 0, Len(full))
    IN  IF dot # -1 THEN dot ELSE IF nl # -1 THEN nl ELSE L

\* the split position of a search that prefers the line break
SplitPosLineBreakFirst(full, L) ==
    LET dot == RFind(full, ".", 0, L)
        nl  == RFind(full, "\n", 0, L)
    IN  IF nl # -1 THEN nl ELSE IF dot # -1 THEN dot ELSE L

SplitPos(full, L) ==
    LET dot == RFind(full, ".", 0, L)
        nl  == RFind(full, "\n", 0, L)
    IN  IF dot # -1 THEN dot ELSE IF nl # -1 THEN nl ELSE L

\* line 64: what stays buffered after the chunk is cut off.
RestAfterSeparator(full, pos) == SliceFrom(full, pos + 1)

RestAfter(full, pos) == SliceFrom(full, pos)

\* line 63: the chunk cut off.
ChunkAt(full, pos) == Slice(full, 0, pos)

Chars == {".", "\n", "a"}

TextsUpTo(n) == UNION {[1..k -> Chars] : k \in 0..n}

\* One- and two-page documents.
ChunkDocs ==
    {<<t>> : t \in TextsUpTo(MaxPageLen)}
        \cup {<<t, u>> : t \in TextsUpTo(MaxPageLen), u \in TextsUpTo(MaxPageLen)}

\* ------------------------------------------- the capabilities and the inputs
CHUNK_SIZE == 900000

\* The chunk sizes the pipeline is run with: one that cuts the documents
\* below into several chunks, and the source's.
PipelineChunkSizes == {6, CHUNK_SIZE}

\* guardian-analyzer/new_pdf_redactor.py, default_regex_patterns
PatID == "\\b[A-Z]{2}\\d{6}\\b"

PatSSN == "\\b\\d{3}-\\d{2}-\\d{4}\\b"

PatCard == "\\b\\d{16}\\b"

PatEmail == "[a-zA-Z0-9._%+-]+@[a-zA-Z0-9.-]+\\.[a-zA-Z]{2,}\\b"

default_regex_patterns == <<PatID, PatSSN, PatCard, PatEmail>>

\* caller-supplied patterns: one that does not compile, one that does
PatUnbalanced == "("

PatPin == "PIN\\d+"

\* re.compile(pattern) raises re.error
CompileFails(pattern) == pattern = PatUnbalanced

\* the words of the documents below that a pattern matches
Language(pattern) ==
    CASE pattern = PatSSN   -> {"123-45-6789"}
      [] pattern = PatEmail -> {"a@b.com"}
      [] pattern = PatPin   -> {"PIN42"}
      [] OTHER              -> {}

\* the runs of adjacent words of the documents below that a pattern matches
\* as one string: "PIN" directly followed by "42" reads "PIN42"
Phrases(pattern) ==
    CASE pattern = PatPin -> {<<"PIN", "42">>}
      [] OTHER            -> {}

\* the lengths, in words, of the matches of pattern that start at index i
MatchLengths(pattern, text, i) ==
    {1 : w \in {text[i + 1]} \cap Language(pattern)}
        \cup {Len(ph) : ph \in {q \in Phrases(pattern) :
                                  Slice(text, i, i + Len(q)) = q}}

RECURSIVE ScanFrom(_, _, _)
\* the leftmost, longest, non-overlapping matches from index i on
ScanFrom(pattern, text, i) ==
    IF i >= Len(text) THEN <<>>
    ELSE IF MatchLengths(pattern, text, i) = {}
         THEN ScanFrom(pattern, text, i + 1)
         ELSE LET n == SetMax(MatchLengths(pattern, text, i))
              IN  <<[start |-> i, end |-> i + n]>>
                      \o ScanFrom(pattern, text, i + n)

\* re.finditer(pattern, text) for a pattern that compiles: the matches, left
\* to right, as [start, end]
FindIter(pattern, text) == ScanFrom(pattern, text, 0)

\* What the detection capability recognises: a deterministic stand-in for
\* AnalyzerEngine.analyze, which flags every occurrence of these strings.
Sensitive == {<<"Bob">>, <<"BOB">>, <<"Al">>}

\* analyzer.analyze(text=text, language=language): results with start, end
Analyze(text) ==
    UNION {{[start |-> i, end |-> i + Len(e)] : i \in Range(FindAll(text, e, 0))} :
              e \in Sensitive}

\* presidio-analyzer: extract_entities_from_analysis
ExtractEntities(analyzer_results, text) ==
    {Slice(text, r.start, r.end) : r \in analyzer_results}

\* guardian-analyzer: extract_entities_from_analysis, with the length filter
ExtractEntitiesFiltered(analyzer_results, text) ==
    {e \in {Slice(text, r.start, r.end) : r \in analyzer_results} :
        CharLen(Strip(e)) > 2}

\* The documents: the two-page scenario of the specification, and a document
\* with detected names, a name on both pages, a keyword and a custom-pattern
\* match.
DocScenario ==
    << <<"SSN:", " ", "123-45-6789", "\n">>,
       <<"Email:", " ", "a@b.com", "\n">> >>

DocNames ==
    << <<"Bob", " ", "met", " ", "Al", ".", "\n">>,
       <<"Bob", ".", "PIN42", "\n">> >>

\* one page with a name in two spellings and a keyword that occurs twice
DocRepeat ==
    << <<"Bob", " ", "BOB", " ", "met", " ", "met">> >>

\* two pages whose texts, put end to end, read "met PIN42": neither page
\* holds a match of PatPin
DocSplit ==
    << <<"met", " ", "PIN">>, <<"42", "\n">> >>

Docs == {DocScenario, DocNames, DocRepeat, DocSplit}

KeywordInputs == {<<>>, << <<"met">> >>}

RegexInputs == {<<>>, <<PatPin>>, <<PatUnbalanced, PatPin>>}

Variants == {"Guardian", "PresidioSeq", "PresidioPar"}

NoReport == [status |-> "none", entities |-> {}]

NoOutput == [saved |-> FALSE, removed |-> {}, covered |-> {}]

NoFirstRun == [targeted |-> {}, areas |-> {}, removed |-> {}]

VARIABLES
    \* ---- analyze_document's chunking loop
    doc_texts,    \* page.get_text() of each page of doc, in page order
    chunk_size,   \* self.CHUNK_SIZE
    page_idx,     \* number of pages the for loop has taken
    full_text,    \* the buffer
    chunk_texts,  \* the chunks produced so far
    cpc,          \* "page" | "while" | "rest" | "done" ("off": not running)
    \* ---- redact_pdf
    variant,      \* which redactor runs: Guardian | PresidioSeq | PresidioPar
    pages,        \* the document's page texts as first opened
    additional_keywords,
    custom_regex,
    pc,           \* position in redact_pdf ("start", "verified", "detect", ...)
    run,          \* 1: first run; 2: the run on the first run's output
    faults,       \* errors raised so far by the external capabilities
    handle,       \* "unopened" | "open" | "closed"
    removed,      \* <<page, index>>: text excised from the text layer
    marked,       \* redact annotations not yet applied
    covered,      \* rectangles filled by draw_rect
    unit_texts,   \* the texts handed to analyzer.analyze, one per unit
    units_done,   \* indices of the units whose result has been merged
    detected_entities,
    keywords,     \* the entity strings searched on every page, in order
    regex_patterns,
    page_queue,   \* pages still to redact, the current one first
    page_text,    \* Guardian's page_text snapshot (line 110)
    items,        \* what is left of the current page's loops
    targets,      \* strings of the current item still to search
    rects,        \* rectangles of the current target still to treat
    stage,        \* "mark" | "draw": next call for Head(rects)
    areas,        \* rectangles search_for returned in this run
    targeted,     \* strings handed to search_for in this run
    fail_log,     \* the calls that raised: [op, page, rect, unit]
    draw_attempts,\* rectangles draw_rect was called with
    report,       \* the returned dictionary, or NoReport
    output,       \* the saved document, or NoOutput
    first_run,    \* what the first run targeted and located, for run 2
    opens,        \* calls of fitz.open in this run
    saves,        \* calls of doc.save that returned in this run
    chunk_futures,\* executor.submit(analyze_text_chunk, chunk), per chunk:
                  \* the worker's copy of the text, its state and result
    page_futures, \* executor.submit(process_page, args), per page
    \* ---- rename_script.preview_and_rename
    fs_dirs,      \* the directories that exist, as paths
    fs_files,     \* the files that exist: path -> content
    walk_queue,   \* the directories os.walk has still to yield
    changes,      \* the list of changes, as [old, new]
    applied,      \* entries of changes the apply loop has gone through
    confirm,      \* what input() returned
    fs_ops,       \* files written and paths renamed so far
    rpc           \* "walk" | "confirm" | "apply" | "done" | "raised"

cvars == <<doc_texts, page_idx, full_text, chunk_texts, cpc>>

pvars == <<variant, pages, additional_keywords, custom_regex, pc, run, faults,
           handle, removed, marked, covered, unit_texts, units_done,
           detected_entities, keywords, regex_patterns, page_queue, page_text,
           items, targets, rects, stage, areas, targeted, fail_log,
           draw_attempts, report, output, first_run, opens, saves,
           chunk_futures, page_futures>>

rvars == <<fs_dirs, fs_files, walk_queue, changes, applied, confirm, fs_ops,
           rpc>>

vars == <<cvars, chunk_size, pvars, rvars>>

ChunkerOff ==
    /\ doc_texts = <<>>
    /\ page_idx = 0
    /\ full_text = <<>>
    /\ chunk_texts = <<>>
    /\ cpc = "off"

\* redact_pdf's variables before a run starts
Fresh ==
    /\ faults = 0
    /\ handle = "unopened"
    /\ removed = {}
    /\ marked = {}
    /\ covered = {}
    /\ unit_texts = <<>>
    /\ units_done = {}
    /\ detected_entities = {}
    /\ keywords = <<>>
    /\ regex_patterns = <<>>
    /\ page_queue = <<>>
    /\ page_text = <<>>
    /\ items = <<>>
    /\ targets = <<>>
    /\ rects = <<>>
    /\ stage = "mark"
    /\ areas = {}
    /\ targeted = {}
    /\ fail_log = {}
    /\ draw_attempts = {}
    /\ report = NoReport
    /\ output = NoOutput
    /\ first_run = NoFirstRun
    /\ opens = 0
    /\ saves = 0
    /\ chunk_futures = <<>>
    /\ page_futures = <<>>

PipelineOff ==
    /\ variant = "none"
    /\ pages = <<>>
    /\ additional_keywords = <<>>
    /\ custom_regex = <<>>
    /\ pc = "off"
    /\ run = 0
    /\ Fresh

\* preview_and_rename is not running
RenameOff ==
    /\ fs_dirs = {}
    /\ fs_files = <<>>
    /\ walk_queue = <<>>
    /\ changes = <<>>
    /\ applied = 0
    /\ confirm = ""
    /\ fs_ops = 0
    /\ rpc = "off"

ChunkInit ==
    /\ doc_texts \in ChunkDocs
    /\ chunk_size \in 1..MaxChunkSize
    /\ page_idx = 0
    /\ full_text = <<>>
    /\ chunk_texts = <<>>
    /\ cpc = "page"
    /\ PipelineOff
    /\ RenameOff

\* lines 51-53: the for loop takes the next page and appends its text.
CollectPage ==
    /\ cpc = "page"
    /\ page_idx < Len(doc_texts)
    /\ full_text' = full_text \o doc_texts[page_idx + 1]
    /\ page_idx' = page_idx + 1
    /\ cpc' = "while"
    /\ UNCHANGED <<rvars, doc_texts, chunk_size, chunk_texts, pvars>>

\* lines 55-64: one iteration of the while loop.
ChunkSplit ==
    /\ cpc = "while"
    /\ Len(full_text) >= chunk_size
    /\ Len(chunk_texts) < MaxChunks
    /\ LET split_pos == SplitPos(full_text, chunk_size)
       IN  /\ chunk_texts' = Append(chunk_texts, ChunkAt(full_text, split_pos))
           /\ full_text' = RestAfter(full_text, split_pos)
    /\ UNCHANGED <<rvars, doc_texts, chunk_size, page_idx, cpc, pvars>>

\* line 55: the while condition is false; back to the for loop.
ExitWhile ==
    /\ cpc = "while"
    /\ Len(full_text) < chunk_size
    /\ cpc' = IF page_idx < Len(doc_texts) THEN "page" ELSE "rest"
    /\ UNCHANGED <<rvars, doc_texts, chunk_size, page_idx, full_text,
                   chunk_texts, pvars>>

\* lines 66-67: the remaining text is the final chunk.
AppendRest ==
    /\ cpc = "rest"
    /\ chunk_texts' = IF full_text # <<>> THEN Append(chunk_texts, full_text)
                      ELSE chunk_texts
    /\ cpc' = "done"
    /\ UNCHANGED <<rvars, doc_texts, chunk_size, page_idx, full_text, pvars>>

ChunkNext == CollectPage \/ ChunkSplit \/ ExitWhile \/ AppendRest

ChunkSpec == ChunkInit /\ [][ChunkNext]_vars

\* ------------------------------------------------------------- redact_pdf
inputs == <<variant, pages, additional_keywords, custom_regex, chunk_size>>

docstate == <<removed, marked, covered>>

detection == <<unit_texts, units_done, detected_entities>>

plan == <<keywords, regex_patterns>>

cursor == <<page_queue, page_text, items, targets, rects, stage>>

logs == <<areas, targeted, draw_attempts>>

results == <<report, output, first_run>>

calls == <<opens, saves>>

pool == <<chunk_futures, page_futures>>

\* page.get_text(): the text layer of page p (1-based), a blank where text
\* has been excised
GetText(p) ==
    [i \in 1..Len(pages[p]) |->
        IF <<p, i - 1>> \in removed THEN Blank ELSE pages[p][i]]

\* the key under which page.search_for compares words: it ignores case, and
\* of the documents' words only "Bob" and "BOB" differ by case alone
CaseFold(w) == IF w \in {"Bob", "BOB"} THEN "bob" ELSE w

FoldText(text) == [i \in DOMAIN text |-> CaseFold(text[i])]

\* page.search_for(needle): one rectangle per occurrence, in reading order
SearchFor(p, needle) ==
    LET starts == FindAll(FoldText(GetText(p)), FoldText(needle), 0)
    IN  [k \in 1..Len(starts) |->
            [page |-> p, start |-> starts[k], end |-> starts[k] + Len(needle)]]

\* the places of the text layer a rectangle lies over
Cells(r) == {<<r.page, i>> : i \in r.start..(r.end - 1)}

\* whether an external call returns or raises
Outcomes == IF faults < MaxFaults THEN {"ok", "raise"} ELSE {"ok"}

\* an exception that reaches redact_pdf's outer except clause
Fatal(op, at) ==
    /\ pc' = "except"
    /\ fail_log' = fail_log \cup {[op |-> op, at |-> at]}

\* an exception caught inside the page loops, or inside a worker
Caught(op, at) == fail_log' = fail_log \cup {[op |-> op, at |-> at]}

AllPages == [i \in 1..Len(pages) |-> [page_num |-> i, matches |-> <<>>]]

\* presidio pdf_redactor.py, lines 36-40: the input file must exist and the
\* directory of the output path is created; a missing input raises
\* FileNotFoundError (line 37), os.makedirs raises when the output path has
\* no directory part (line 40). Both happen before fitz.open.
SeqVerifyPaths ==
    /\ pc = "start"
    /\ variant = "PresidioSeq"
    /\ \E outcome \in {"ok"} \cup (IF faults < MaxFaults
                                  THEN {"exists", "makedirs"} ELSE {}) :
         IF outcome = "ok"
         THEN /\ pc' = "verified"
              /\ UNCHANGED <<faults, fail_log>>
         ELSE /\ Fatal(outcome, 0)
              /\ faults' = faults + 1
    /\ UNCHANGED <<rvars, calls, pool, cvars, inputs, run, handle, docstate,
                   detection, plan, cursor, logs, results>>

\* what fitz.open can do: return an open document, raise (a missing file,
\* a file that is no document), or, the case pdf_redactor.py tests for at
\* line 45, return a document that is closed
OpenOutcomes ==
    Outcomes \cup (IF variant = "PresidioSeq" /\ faults < MaxFaults
                   THEN {"closed"} ELSE {})

\* fitz.open(pdf_path), guardian line 60, presidio new_pdf_redactor.py line
\* 123, pdf_redactor.py lines 44-46. When it raises there is no document;
\* pdf_redactor.py raises ValueError itself when the document it got is closed
Open ==
    /\ pc = (IF variant = "PresidioSeq" THEN "verified" ELSE "start")
    /\ \E outcome \in OpenOutcomes :
         IF outcome = "closed"
         THEN /\ handle' = "closed"
              /\ opens' = opens + 1
              /\ Fatal("is_closed", 0)
              /\ faults' = faults + 1
              /\ UNCHANGED cvars
         ELSE IF outcome = "ok"
         THEN /\ handle' = "open"
              /\ opens' = opens + 1
              /\ IF variant = "PresidioPar"
                 THEN /\ doc_texts' = [p \in 1..Len(pages) |-> GetText(p)]
                      /\ page_idx' = 0
                      /\ full_text' = <<>>
                      /\ chunk_texts' = <<>>
                      /\ cpc' = "page"
                      /\ pc' = "chunking"
                 ELSE /\ pc' = "detect"
                      /\ UNCHANGED cvars
              /\ UNCHANGED <<faults, fail_log>>
         ELSE /\ Fatal("open", 0)
              /\ faults' = faults + 1
              /\ UNCHANGED <<handle, opens, cvars>>
    /\ UNCHANGED <<rvars, pool, saves, inputs, run, docstate, detection,
                   plan, cursor, logs, results>>

\* a task handed to the process pool: the worker gets a copy of the text
Submitted(text, nothing) ==
    [state |-> "running", text |-> text, result |-> nothing]

\* presidio new_pdf_redactor.py, lines 70-74: the chunks are submitted
SubmitChunks ==
    /\ pc = "chunking"
    /\ cpc = "done"
    /\ unit_texts' = chunk_texts
    /\ chunk_futures' = [u \in DOMAIN chunk_texts |-> Submitted(chunk_texts[u], {})]
    /\ pc' = "detect"
    /\ UNCHANGED <<rvars, calls, page_futures, cvars, inputs, run, faults,
                   handle, docstate, units_done, detected_entities, plan,
                   cursor, logs, fail_log, results>>

\* guardian new_pdf_redactor.py, lines 64-80: one page of the first pass
GuardianAnalyzePage ==
    /\ pc = "detect"
    /\ variant = "Guardian"
    /\ Cardinality(units_done) < Len(pages)
    /\ LET page_num == Cardinality(units_done) + 1
           text == GetText(page_num)
       IN  \E outcome \in Outcomes :
             IF outcome = "ok"
             THEN /\ detected_entities' = detected_entities
                        \cup ExtractEntitiesFiltered(Analyze(text), text)
                  /\ unit_texts' = Append(unit_texts, text)
                  /\ units_done' = units_done \cup {page_num}
                  /\ UNCHANGED <<pc, faults, fail_log>>
             ELSE /\ Fatal("analyze", page_num)
                  /\ faults' = faults + 1
                  /\ UNCHANGED <<detected_entities, unit_texts, units_done>>
    /\ UNCHANGED <<rvars, calls, pool, cvars, inputs, run, handle, docstate,
                   plan, cursor, logs, results>>

Compiles(pattern) == ~CompileFails(pattern)

\* guardian new_pdf_redactor.py, lines 82-105: keywords and validated patterns
GuardianConfig ==
    /\ pc = "detect"
    /\ variant = "Guardian"
    /\ Cardinality(units_done) = Len(pages)
    /\ \E order \in Listings(detected_entities) :
          keywords' = order \o additional_keywords
    /\ regex_patterns' = SelectSeq(default_regex_patterns \o custom_regex, Compiles)
    /\ fail_log' = fail_log \cup
          {[op |-> "invalid_pattern", at |-> pat] :
              pat \in {q \in Range(default_regex_patterns \o custom_regex) :
                          CompileFails(q)}}
    /\ page_queue' = AllPages
    /\ pc' = "redact_page"
    /\ UNCHANGED <<rvars, calls, pool, cvars, inputs, run, faults, handle,
                   docstate, detection, page_text, items, targets, rects,
                   stage, logs, results>>

\* presidio pdf_redactor.py, lines 52-69: the whole text, analysed at once
SeqAnalyze ==
    /\ pc = "detect"
    /\ variant = "PresidioSeq"
    /\ units_done = {}
    /\ LET text == Flatten([p \in 1..Len(pages) |-> GetText(p)])
       IN  \E outcome \in Outcomes :
             IF outcome = "ok"
             THEN /\ detected_entities' = ExtractEntities(Analyze(text), text)
                  /\ unit_texts' = <<text>>
                  /\ units_done' = {1}
                  /\ UNCHANGED <<pc, faults, fail_log>>
             ELSE /\ Fatal("analyze", 1)
                  /\ faults' = faults + 1
                  /\ UNCHANGED <<detected_entities, unit_texts, units_done>>
    /\ UNCHANGED <<rvars, calls, pool, cvars, inputs, run, handle, docstate,
                   plan, cursor, logs, results>>

\* the strings the custom patterns match in text
RegexEntities(text) ==
    UNION {{Slice(text, m.start, m.end) : m \in Range(FindIter(pat, text))} :
              pat \in Range(custom_regex)}

\* presidio pdf_redactor.py, lines 73-87: all_entities
SeqConfig ==
    /\ pc = "detect"
    /\ variant = "PresidioSeq"
    /\ units_done = {1}
    /\ IF \E pat \in Range(custom_regex) : CompileFails(pat)
       THEN /\ Fatal("regex", PatUnbalanced)
            /\ UNCHANGED <<keywords, page_queue>>
       ELSE /\ \E order \in Listings(detected_entities
                      \cup Range(additional_keywords)
                      \cup RegexEntities(unit_texts[1])) :
                 keywords' = order
            /\ page_queue' = AllPages
            /\ pc' = "redact_page"
            /\ UNCHANGED fail_log
    /\ UNCHANGED <<rvars, calls, pool, cvars, inputs, run, faults, handle,
                   docstate, detection, regex_patterns, page_text, items,
                   targets, rects, stage, logs, results>>

\* what analyze_text_chunk returns for its text, lines 37-42: the entity
\* texts, or nothing when the analysis raised
ChunkResult(text, outcome) ==
    IF outcome = "ok" THEN ExtractEntities(Analyze(text), text) ELSE {}

\* analyze_text_chunk in a worker that shares the entity set and adds to it
ParAnalyzeChunkShared ==
    /\ pc = "detect"
    /\ variant = "PresidioPar"
    /\ \E u \in DOMAIN chunk_futures :
         /\ chunk_futures[u].state = "running"
         /\ \E outcome \in Outcomes :
              /\ chunk_futures' = [chunk_futures EXCEPT ![u] =
                    [@ EXCEPT !.state = "done",
                              !.result = ChunkResult(chunk_futures[u].text, outcome)]]
              /\ detected_entities' = detected_entities
                    \cup ChunkResult(chunk_futures[u].text, outcome)
              /\ IF outcome = "ok"
                 THEN UNCHANGED <<faults, fail_log>>
                 ELSE Caught("analyze", u) /\ faults' = faults + 1
    /\ UNCHANGED <<rvars, cvars, inputs, pc, run, handle, docstate, unit_texts,
                   units_done, plan, cursor, logs, results, calls,
                   page_futures>>

\* presidio new_pdf_redactor.py, lines 35-42: analyze_text_chunk runs in a
\* pool worker on its copy of one chunk, and the chunk's future completes
ParAnalyzeChunk ==
    /\ pc = "detect"
    /\ variant = "PresidioPar"
    /\ \E u \in DOMAIN chunk_futures :
         /\ chunk_futures[u].state = "running"
         /\ \E outcome \in Outcomes :
              /\ chunk_futures' = [chunk_futures EXCEPT ![u] =
                    [@ EXCEPT !.state = "done",
                              !.result = ChunkResult(chunk_futures[u].text, outcome)]]
              /\ IF outcome = "ok"
                 THEN UNCHANGED <<faults, fail_log>>
                 ELSE Caught("analyze", u) /\ faults' = faults + 1
    /\ UNCHANGED <<rvars, cvars, inputs, pc, run, handle, docstate, detection,
                   plan, cursor, logs, results, calls, page_futures>>

\* a merge that assigns the completed future's entities to all_entities
ParMergeChunkOverwrites ==
    /\ pc = "detect"
    /\ variant = "PresidioPar"
    /\ \E u \in DOMAIN chunk_futures \ units_done :
         /\ chunk_futures[u].state = "done"
         /\ detected_entities' = chunk_futures[u].result
         /\ units_done' = units_done \cup {u}
    /\ UNCHANGED <<rvars, cvars, inputs, pc, run, faults, handle, docstate,
                   unit_texts, plan, cursor, logs, fail_log, results, calls,
                   pool>>

\* lines 77-80: the orchestrating process takes one completed future from
\* as_completed and merges its entities into all_entities
ParMergeChunk ==
    /\ pc = "detect"
    /\ variant = "PresidioPar"
    /\ \E u \in DOMAIN chunk_futures \ units_done :
         /\ chunk_futures[u].state = "done"
         /\ detected_entities' = detected_entities \cup chunk_futures[u].result
         /\ units_done' = units_done \cup {u}
    /\ UNCHANGED <<rvars, cvars, inputs, pc, run, faults, handle, docstate,
                   unit_texts, plan, cursor, logs, fail_log, results, calls,
                   pool>>

\* presidio new_pdf_redactor.py, lines 131-158: all_entities, and the pages'
\* texts are submitted to the pool
ParConfig ==
    /\ pc = "detect"
    /\ variant = "PresidioPar"
    /\ units_done = DOMAIN unit_texts
    /\ IF \E pat \in Range(custom_regex) : CompileFails(pat)
       THEN /\ Fatal("regex", PatUnbalanced)
            /\ UNCHANGED <<keywords, page_futures>>
       ELSE /\ \E order \in Listings(detected_entities
                      \cup Range(additional_keywords)
                      \cup UNION {RegexEntities(GetText(p)) : p \in 1..Len(pages)}) :
                 keywords' = order
            /\ page_futures' = [p \in 1..Len(pages) |-> Submitted(GetText(p), <<>>)]
            /\ pc' = "process_pages"
            /\ UNCHANGED fail_log
    /\ UNCHANGED <<rvars, calls, chunk_futures, cvars, inputs, run, faults,
                   handle, docstate, detection, regex_patterns, cursor, logs,
                   results>>

\* process_page, lines 88-98: the (start, end) of every entity's occurrences
PageMatches(text, entities) ==
    Flatten([k \in 1..Len(entities) |->
        LET starts == FindAll(text, entities[k], 0)
        IN  [j \in 1..Len(starts) |->
                [start |-> starts[j], end |-> starts[j] + Len(entities[k])]]])

\* process_page in a worker that holds the document and draws on its page
ParProcessPageDraws ==
    /\ pc = "process_pages"
    /\ \E p \in DOMAIN page_futures :
         /\ page_futures[p].state = "running"
         /\ LET matches == PageMatches(page_futures[p].text, keywords)
            IN  /\ page_futures' = [page_futures EXCEPT ![p] =
                      [@ EXCEPT !.state = "done",
                                !.result = [page_num |-> p, matches |-> matches]]]
                /\ covered' = covered \cup
                      {[page |-> p, start |-> m.start, end |-> m.end] :
                          m \in Range(matches)}
    /\ UNCHANGED <<rvars, cvars, inputs, pc, run, faults, handle, removed,
                   marked, detection, plan, cursor, logs, fail_log, results,
                   calls, chunk_futures>>

\* presidio new_pdf_redactor.py, lines 84-101: process_page runs in a pool
\* worker on its copy of one page's text, and the page's future completes
ParProcessPage ==
    /\ pc = "process_pages"
    /\ \E p \in DOMAIN page_futures :
         /\ page_futures[p].state = "running"
         /\ page_futures' = [page_futures EXCEPT ![p] =
               [@ EXCEPT !.state = "done",
                         !.result = [page_num |-> p,
                                     matches |->
                                       PageMatches(page_futures[p].text, keywords)]]]
    /\ UNCHANGED <<rvars, cvars, inputs, pc, run, faults, handle, docstate,
                   detection, plan, cursor, logs, fail_log, results, calls,
                   chunk_futures>>

\* lines 160-162: the orchestrating process appends one completed future's
\* result to results
ParCollectPage ==
    /\ pc = "process_pages"
    /\ \E p \in DOMAIN page_futures \ {page_queue[i].page_num : i \in DOMAIN page_queue} :
         /\ page_futures[p].state = "done"
         /\ page_queue' = Append(page_queue, page_futures[p].result)
    /\ pc' = IF Len(page_queue') = Len(pages) THEN "redact_page" ELSE "process_pages"
    /\ UNCHANGED <<rvars, cvars, inputs, run, faults, handle, docstate,
                   detection, plan, page_text, items, targets, rects, stage,
                   logs, fail_log, results, calls, pool>>

CurrentPage == Head(page_queue).page_num

\* the first call made for a located rectangle
FirstStage == IF variant = "Guardian" THEN "mark" ELSE "draw"

KeywordItems == [k \in 1..Len(keywords) |-> [kind |-> "keyword", text |-> keywords[k]]]

PatternItems ==
    [k \in 1..Len(regex_patterns) |-> [kind |-> "regex", text |-> regex_patterns[k]]]

SpanItems(matches) ==
    [k \in 1..Len(matches) |-> [kind |-> "span", text |-> matches[k]]]

\* the page loop takes the next page: guardian lines 108-110, presidio
\* pdf_redactor.py lines 90-95, new_pdf_redactor.py lines 166-168
BeginPage ==
    /\ pc = "redact_page"
    /\ page_queue # <<>>
    /\ page_text' = IF variant = "Guardian" THEN GetText(CurrentPage) ELSE page_text
    /\ items' = CASE variant = "Guardian"    -> KeywordItems \o PatternItems
                  [] variant = "PresidioSeq" -> KeywordItems
                  [] OTHER                   -> SpanItems(Head(page_queue).matches)
    /\ pc' = "redact_items"
    /\ UNCHANGED <<rvars, calls, pool, cvars, inputs, run, faults, handle,
                   docstate, detection, plan, page_queue, targets, rects,
                   stage, logs, fail_log, results>>

\* the strings one item of the page loops has searched for
ItemTargets(item) ==
    CASE item.kind = "keyword" -> <<item.text>>
      [] item.kind = "regex" ->
            LET ms == FindIter(item.text, page_text)
            IN  [k \in 1..Len(ms) |-> Slice(page_text, ms[k].start, ms[k].end)]
      [] OTHER ->
            <<Slice(GetText(CurrentPage), item.text.start, item.text.end)>>

\* the next keyword (guardian 113, pdf_redactor.py 97), pattern (guardian
\* 123-125) or match (new_pdf_redactor.py 170-171)
NextItem ==
    /\ pc = "redact_items"
    /\ targets = <<>>
    /\ rects = <<>>
    /\ items # <<>>
    /\ targets' = ItemTargets(Head(items))
    /\ items' = Tail(items)
    /\ UNCHANGED <<rvars, calls, pool, cvars, inputs, pc, run, faults, handle,
                   docstate, detection, plan, page_queue, page_text, rects,
                   stage, logs, fail_log, results>>

\* what an exception raised inside the page loops does: guardian's handlers
\* (lines 119, 132) give up the keyword or pattern; the presidio variants
\* have no handler there
RaiseInLoops(op, at) ==
    IF variant = "Guardian"
    THEN /\ Caught(op, at)
         /\ targets' = <<>>
         /\ rects' = <<>>
         /\ stage' = "mark"
         /\ UNCHANGED pc
    ELSE /\ Fatal(op, at)
         /\ UNCHANGED <<targets, rects, stage>>

\* page.search_for(target)
Search ==
    /\ pc = "redact_items"
    /\ rects = <<>>
    /\ targets # <<>>
    /\ LET target == Head(targets)
       IN  /\ targeted' = targeted \cup {target}
           /\ \E outcome \in Outcomes :
                IF outcome = "ok"
                THEN /\ rects' = SearchFor(CurrentPage, target)
                     /\ targets' = Tail(targets)
                     /\ stage' = FirstStage
                     /\ areas' = areas \cup Range(SearchFor(CurrentPage, target))
                     /\ UNCHANGED <<pc, faults, fail_log>>
                ELSE /\ RaiseInLoops("search", [page |-> CurrentPage, text |-> target])
                     /\ faults' = faults + 1
                     /\ UNCHANGED areas
    /\ UNCHANGED <<rvars, calls, pool, cvars, inputs, run, handle, docstate,
                   detection, plan, page_queue, page_text, items,
                   draw_attempts, results>>

\* add_redact_annot followed at once by apply_redactions: the text under the
\* rectangle leaves the text layer inside the page's loops
MarkAppliesAtOnce ==
    /\ pc = "redact_items"
    /\ rects # <<>>
    /\ stage = "mark"
    /\ \E outcome \in Outcomes :
         IF outcome = "ok"
         THEN /\ removed' = removed \cup Cells(Head(rects))
              /\ stage' = "draw"
              /\ UNCHANGED <<pc, faults, fail_log, targets, rects>>
         ELSE /\ RaiseInLoops("add_redact_annot", Head(rects))
              /\ faults' = faults + 1
              /\ UNCHANGED removed
    /\ UNCHANGED <<rvars, calls, pool, cvars, inputs, run, handle, marked,
                   covered, detection, plan, page_queue, page_text, items,
                   logs, results>>

\* page.add_redact_annot(rect): guardian lines 117, 130
Mark ==
    /\ pc = "redact_items"
    /\ rects # <<>>
    /\ stage = "mark"
    /\ \E outcome \in Outcomes :
         IF outcome = "ok"
         THEN /\ marked' = marked \cup {Head(rects)}
              /\ stage' = "draw"
              /\ UNCHANGED <<pc, faults, fail_log, targets, rects>>
         ELSE /\ RaiseInLoops("add_redact_annot", Head(rects))
              /\ faults' = faults + 1
              /\ UNCHANGED marked
    /\ UNCHANGED <<rvars, calls, pool, cvars, inputs, run, handle, removed,
                   covered, detection, plan, page_queue, page_text, items,
                   logs, results>>

\* page.draw_rect(rect, color=(0, 0, 0), fill=(0, 0, 0))
Draw ==
    /\ pc = "redact_items"
    /\ rects # <<>>
    /\ stage = "draw"
    /\ draw_attempts' = draw_attempts \cup {Head(rects)}
    /\ \E outcome \in Outcomes :
         IF outcome = "ok"
         THEN /\ covered' = covered \cup {Head(rects)}
              /\ rects' = Tail(rects)
              /\ stage' = FirstStage
              /\ UNCHANGED <<pc, faults, fail_log, targets>>
         ELSE /\ RaiseInLoops("draw_rect", Head(rects))
              /\ faults' = faults + 1
              /\ UNCHANGED covered
    /\ UNCHANGED <<rvars, calls, pool, cvars, inputs, run, handle, removed,
                   marked, detection, plan, page_queue, page_text, items,
                   areas, targeted, results>>

\* page.apply_redactions(): the text under every annotation of the page is
\* excised, and the annotations are consumed
ApplyRedactions(p) ==
    /\ removed' = removed \cup UNION {Cells(r) : r \in {q \in marked : q.page = p}}
    /\ marked' = {q \in marked : q.page # p}

\* a page loop that leaves for the save after its first page
EndPageLeavesEarly ==
    /\ pc = "redact_items"
    /\ items = <<>>
    /\ targets = <<>>
    /\ rects = <<>>
    /\ IF variant = "Guardian"
       THEN ApplyRedactions(CurrentPage)
       ELSE UNCHANGED <<removed, marked>>
    /\ pc' = "save"
    /\ UNCHANGED <<rvars, calls, pool, cvars, inputs, run, faults, handle,
                   covered, detection, plan, cursor, logs, fail_log, results>>

\* the end of one page's loops: guardian line 136 applies the redactions; the
\* presidio variants only go on to the next page
EndPage ==
    /\ pc = "redact_items"
    /\ items = <<>>
    /\ targets = <<>>
    /\ rects = <<>>
    /\ \E outcome \in (IF variant = "Guardian" THEN Outcomes ELSE {"ok"}) :
         IF outcome = "ok"
         THEN /\ IF variant = "Guardian"
                 THEN ApplyRedactions(CurrentPage)
                 ELSE UNCHANGED <<removed, marked>>
              /\ page_queue' = Tail(page_queue)
              /\ pc' = IF Tail(page_queue) = <<>> THEN "save" ELSE "redact_page"
              /\ UNCHANGED <<faults, fail_log>>
         ELSE /\ Fatal("apply_redactions", CurrentPage)
              /\ faults' = faults + 1
              /\ UNCHANGED <<removed, marked, page_queue>>
    /\ UNCHANGED <<rvars, calls, pool, cvars, inputs, run, handle, covered,
                   detection, plan, page_text, items, targets, rects, stage,
                   logs, results>>

\* doc.save(output_path) inside a handler that logs the error and goes on
SaveSwallowsError ==
    /\ pc = "save"
    /\ \E outcome \in Outcomes :
         IF outcome = "ok"
         THEN /\ output' = [saved |-> TRUE, removed |-> removed, covered |-> covered]
              /\ saves' = saves + 1
              /\ UNCHANGED <<faults, fail_log>>
         ELSE /\ Caught("save", 0)
              /\ faults' = faults + 1
              /\ UNCHANGED <<output, saves>>
    /\ pc' = "saved"
    /\ UNCHANGED <<rvars, pool, opens, cvars, inputs, run, handle, docstate,
                   detection, plan, cursor, logs, report, first_run>>

\* doc.save(output_path)
Save ==
    /\ pc = "save"
    /\ \E outcome \in Outcomes :
         IF outcome = "ok"
         THEN /\ output' = [saved |-> TRUE, removed |-> removed, covered |-> covered]
              /\ saves' = saves + 1
              /\ pc' = "saved"
              /\ UNCHANGED <<faults, fail_log>>
         ELSE /\ Fatal("save", 0)
              /\ faults' = faults + 1
              /\ UNCHANGED <<output, saves>>
    /\ UNCHANGED <<rvars, pool, opens, cvars, inputs, run, handle, docstate,
                   detection, plan, cursor, logs, report, first_run>>

\* the entity list of the returned dictionary: guardian line 144
\* (detected_entities), presidio line 109 / 186 (all_entities)
ReportedEntities ==
    IF variant = "Guardian" THEN detected_entities ELSE Range(keywords)

\* doc.close() and the return of the report
Finish ==
    /\ pc = "saved"
    /\ handle' = "closed"
    /\ report' = [status |-> "success", entities |-> ReportedEntities]
    /\ pc' = "returned"
    /\ UNCHANGED <<rvars, calls, pool, cvars, inputs, run, faults, docstate,
                   detection, plan, cursor, logs, fail_log, output,
                   first_run>>

\* the outer except clause re-raises; pdf_redactor.py's finally closes the
\* document if it was opened (line 119), the other two variants have no
\* finally
Propagate ==
    /\ pc = "except"
    /\ handle' = IF variant = "PresidioSeq" /\ handle = "open" THEN "closed"
                 ELSE handle
    /\ pc' = "raised"
    /\ UNCHANGED <<rvars, calls, pool, cvars, inputs, run, faults, docstate,
                   detection, plan, cursor, logs, fail_log, results>>

\* redact_pdf is called again, with the same configuration, on the document
\* the first run saved
Rerun ==
    /\ pc = "returned"
    /\ run = 1
    /\ run' = 2
    /\ first_run' = [targeted |-> targeted, areas |-> areas,
                      removed |-> output.removed]
    /\ removed' = output.removed
    /\ covered' = output.covered
    /\ marked' = {}
    /\ pc' = "start"
    /\ handle' = "unopened"
    /\ unit_texts' = <<>>
    /\ units_done' = {}
    /\ detected_entities' = {}
    /\ keywords' = <<>>
    /\ regex_patterns' = <<>>
    /\ page_queue' = <<>>
    /\ page_text' = <<>>
    /\ items' = <<>>
    /\ targets' = <<>>
    /\ rects' = <<>>
    /\ stage' = "mark"
    /\ areas' = {}
    /\ targeted' = {}
    /\ draw_attempts' = {}
    /\ fail_log' = {}
    /\ report' = NoReport
    /\ output' = NoOutput
    /\ doc_texts' = <<>>
    /\ page_idx' = 0
    /\ full_text' = <<>>
    /\ chunk_texts' = <<>>
    /\ cpc' = "off"
    /\ opens' = 0
    /\ saves' = 0
    /\ chunk_futures' = <<>>
    /\ page_futures' = <<>>
    /\ UNCHANGED <<rvars, inputs, faults>>

Init ==
    /\ variant \in Variants
    /\ pages \in Docs
    /\ additional_keywords \in KeywordInputs
    /\ custom_regex \in RegexInputs
    /\ chunk_size \in (IF variant = "PresidioPar" THEN PipelineChunkSizes
                       ELSE {CHUNK_SIZE})
    /\ pc = "start"
    /\ run = 1
    /\ Fresh
    /\ ChunkerOff
    /\ RenameOff

Next ==
    \/ SeqVerifyPaths
    \/ Open
    \/ CollectPage \/ ChunkSplit \/ ExitWhile \/ AppendRest
    \/ SubmitChunks
    \/ GuardianAnalyzePage \/ GuardianConfig
    \/ SeqAnalyze \/ SeqConfig
    \/ ParAnalyzeChunk \/ ParMergeChunk \/ ParConfig
    \/ ParProcessPage \/ ParCollectPage
    \/ BeginPage \/ NextItem \/ Search \/ Mark \/ Draw \/ EndPage
    \/ Save \/ Finish \/ Propagate \/ Rerun

Spec == Init /\ [][Next]_vars

\* ----------------------------------------- rename_script.preview_and_rename
\* the directory the script is run on (line 79)
Root == <<"guardian-analyzer">>

DirNames == {"presidio_analyzer", "Presidio", "docs"}

FileNames == {"presidio_utils.py", "README.md", "logo.png"}

Contents == {"import presidio_analyzer", "hello"}

Answers == {"y", " Y ", "n", ""}

\* 'presidio' in name.lower(), for the names above
HasPresidio(name) == name \in {"presidio_analyzer", "Presidio", "presidio_utils.py"}

\* name.replace('presidio', 'guardian'): the replacement minds the case
ReplacePresidio(name) ==
    CASE name = "presidio_analyzer" -> "guardian_analyzer"
      [] name = "presidio_utils.py" -> "guardian_utils.py"
      [] OTHER                      -> name

\* file_name.endswith(('.py', '.md', '.txt', '.yml', '.yaml'))
IsTextFile(name) == name \in {"presidio_utils.py", "README.md"}

\* lines 39-41: the replacements applied to a file's content
ReplaceContent(content) ==
    IF content = "import presidio_analyzer" THEN "import guardian_analyzer"
    ELSE content

\* input(...).strip().lower()
StripLower(answer) == IF answer = " Y " THEN "y" ELSE answer

\* the second component of a content-change entry (line 44)
ContentChanges == <<"Content changes">>

IsUnder(path, dir) ==
    Len(path) >= Len(dir) /\ SubSeq(path, 1, Len(dir)) = dir

\* the entries of one directory, as os.walk yields them
ChildDirs(root) == {d \in fs_dirs : Len(d) = Len(root) + 1 /\ IsUnder(d, root)}

ChildFiles(root) ==
    {f \in DOMAIN fs_files : Len(f) = Len(root) + 1 /\ IsUnder(f, root)}

\* lines 22-27: the renames listed for the directories of root
DirChanges(dirs) ==
    LET listed == SelectSeq(dirs, LAMBDA d : HasPresidio(d[Len(d)]))
    IN  [k \in 1..Len(listed) |->
            [old |-> listed[k],
             new |-> Append(SubSeq(listed[k], 1, Len(listed[k]) - 1),
                            ReplacePresidio(listed[k][Len(listed[k])]))]]

\* lines 30-50: the entries listed for one file
FileChanges(file_path) ==
    LET name == file_path[Len(file_path)]
        root == SubSeq(file_path, 1, Len(file_path) - 1)
    IN  IF ~IsTextFile(name) THEN <<>>
        ELSE (IF ReplaceContent(fs_files[file_path]) # fs_files[file_path]
              THEN <<[old |-> file_path, new |-> ContentChanges]>>
              ELSE <<>>)
             \o (IF HasPresidio(name)
                 THEN <<[old |-> file_path,
                         new |-> Append(root, ReplacePresidio(name))]>>
                 ELSE <<>>)

\* a tree under Root: one directory holding one file, and one file beside it
RenameInit ==
    /\ \E d \in DirNames, f1 \in FileNames, f2 \in FileNames,
          c1 \in Contents, c2 \in Contents :
         /\ fs_dirs = {Root, Append(Root, d)}
         /\ fs_files = [f \in {Append(Root, f1), Append(Append(Root, d), f2)} |->
                           IF f = Append(Root, f1) THEN c1 ELSE c2]
    /\ walk_queue = <<Root>>
    /\ changes = <<>>
    /\ applied = 0
    /\ confirm = ""
    /\ fs_ops = 0
    /\ rpc = "walk"
    /\ chunk_size = CHUNK_SIZE
    /\ ChunkerOff
    /\ PipelineOff

\* lines 20-50: one iteration of the os.walk loop, top-down
ScanDirectory ==
    /\ rpc = "walk"
    /\ walk_queue # <<>>
    /\ LET root == Head(walk_queue)
       IN  \E dirs \in Listings(ChildDirs(root)),
              files \in Listings(ChildFiles(root)) :
             /\ changes' = changes \o DirChanges(dirs)
                   \o Flatten([k \in 1..Len(files) |-> FileChanges(files[k])])
             /\ walk_queue' = dirs \o Tail(walk_queue)
             /\ rpc' = IF dirs \o Tail(walk_queue) = <<>> THEN "confirm"
                       ELSE "walk"
    /\ UNCHANGED <<fs_dirs, fs_files, applied, confirm, fs_ops, cvars,
                   chunk_size, pvars>>

\* lines 58-59 and 74-75: the answer is read
Confirm ==
    /\ rpc = "confirm"
    /\ \E answer \in Answers :
         /\ confirm' = answer
         /\ rpc' = IF StripLower(answer) = "y" THEN "apply" ELSE "done"
    /\ UNCHANGED <<fs_dirs, fs_files, walk_queue, changes, applied, fs_ops,
                   cvars, chunk_size, pvars>>

\* where os.rename(old, new) puts a path
Moved(path, old, new) ==
    IF IsUnder(path, old)
    THEN new \o SubSeq(path, Len(old) + 1, Len(path))
    ELSE path

\* lines 60-72: one entry of the list is applied; open() and os.rename raise
\* FileNotFoundError when the recorded path does not exist
ApplyChange ==
    /\ rpc = "apply"
    /\ applied < Len(changes)
    /\ LET old == changes[applied + 1].old
           new == changes[applied + 1].new
       IN  IF new = ContentChanges
           THEN IF old \in DOMAIN fs_files
                THEN /\ fs_files' = [fs_files EXCEPT ![old] = ReplaceContent(@)]
                     /\ fs_ops' = fs_ops + 1
                     /\ applied' = applied + 1
                     /\ UNCHANGED <<fs_dirs, rpc>>
                ELSE /\ rpc' = "raised"
                     /\ UNCHANGED <<fs_dirs, fs_files, fs_ops, applied>>
           ELSE IF old \in fs_dirs \cup DOMAIN fs_files
                THEN /\ fs_dirs' = {Moved(d, old, new) : d \in fs_dirs}
                     /\ fs_files' =
                           [f \in {Moved(g, old, new) : g \in DOMAIN fs_files} |->
                               fs_files[CHOOSE g \in DOMAIN fs_files :
                                            Moved(g, old, new) = f]]
                     /\ fs_ops' = fs_ops + 1
                     /\ applied' = applied + 1
                     /\ UNCHANGED rpc
                ELSE /\ rpc' = "raised"
                     /\ UNCHANGED <<fs_dirs, fs_files, fs_ops, applied>>
    /\ UNCHANGED <<walk_queue, changes, confirm, cvars, chunk_size, pvars>>

\* line 73: every entry has been applied
FinishApply ==
    /\ rpc = "apply"
    /\ applied = Len(changes)
    /\ rpc' = "done"
    /\ UNCHANGED <<fs_dirs, fs_files, walk_queue, changes, applied, confirm,
                   fs_ops, cvars, chunk_size, pvars>>

RenameNext == ScanDirectory \/ Confirm \/ ApplyChange \/ FinishApply

RenameSpec == RenameInit /\ [][RenameNext]_vars

\* ------------------------------------------------------------- properties
Aborted == pc \in {"except", "raised"}

\* C1: in the saved document, the text under every rectangle that was
\* covered with the opaque fill is no longer in the extractable text layer.
C1_NoVisualLeakage ==
    output.saved => \A r \in output.covered : Cells(r) \subseteq output.removed

\* C2: a rectangle is covered only after it has been marked and its text
\* removal has been applied (PENDING, MARKED, TEXT_REMOVED, COVERED): at the
\* step that covers it, its text is already gone from the text layer.
C2_StrictStepOrder ==
    [][\A r \in covered' \ covered : Cells(r) \subseteq removed]_vars

\* C3: a second run with the same configuration on the first run's output
\* detects none of the strings the first run targeted and locates no
\* redaction area.
C3_Idempotence ==
    (run = 2 /\ pc = "returned" /\ faults = 0)
        => /\ detected_entities \cap first_run.targeted = {}
           /\ areas = {}

\* C4: the chunks produced so far, followed by the text still buffered, are
\* exactly the text of the pages read so far; once the loop is done the
\* chunks alone are the text of all pages.
C4_ChunkReconstruction ==
    cpc # "off" =>
        Flatten(chunk_texts) \o (IF cpc = "done" THEN <<>> ELSE full_text)
            = Flatten(SubSeq(doc_texts, 1, page_idx))

C4_Witness ==
    /\ cpc = "done"
    /\ Len(doc_texts) = 2
    /\ doc_texts[1] # <<>>
    /\ doc_texts[2] # <<>>
    /\ Len(chunk_texts) >= 3
    /\ \E i \in 2..Len(chunk_texts) :
          /\ chunk_texts[i - 1] # <<>>
          /\ chunk_texts[i] # <<>>
          /\ Head(chunk_texts[i]) = "."
    /\ Flatten(chunk_texts) = Flatten(doc_texts)

\* C5: the chunking loop terminates: every iteration of the while loop
\* takes text out of the buffer, so the buffer shrinks below the chunk size
\* after finitely many iterations.
C5_EveryIterationConsumesText ==
    [][(cpc = "while" /\ chunk_texts' # chunk_texts)
          => Len(full_text') < Len(full_text)]_vars

\* C6: every chunk, the final one included, is at most chunk_size long.
C6_ChunkLengthBound ==
    \A i \in DOMAIN chunk_texts : Len(chunk_texts[i]) <= chunk_size

C6_Witness ==
    /\ cpc = "done"
    /\ Len(chunk_texts) >= 2
    /\ Len(chunk_texts[1]) = chunk_size
    /\ full_text # <<>>
    /\ chunk_texts[Len(chunk_texts)] = full_text

\* C7: the entity list of the report of a successful run is the set of the
\* strings the run targeted, whatever their source (guardian and
\* pdf_redactor.py, the sources of the claim).
C7_ReportListsTargeted ==
    (pc = "returned" /\ faults = 0 /\ variant \in {"Guardian", "PresidioSeq"})
        => report.entities = targeted

\* C8: when only detection calls have raised, the run is not aborted, and
\* the run that returns has analysed every other unit.
C8_DetectionFailureIsLocal ==
    (fail_log # {} /\ \A f \in fail_log : f.op = "analyze")
        => /\ ~Aborted
           /\ pc = "returned" => Cardinality(units_done) >= Len(unit_texts)

\* the rectangles of the matches of the caller's valid patterns
CustomPatternRects ==
    UNION {{[page |-> p, start |-> m.start, end |-> m.end] :
                m \in Range(FindIter(pat, pages[p]))} :
              p \in 1..Len(pages), pat \in {q \in Range(custom_regex) : Compiles(q)}}

\* C9: with one invalid and one valid caller pattern (and no other error),
\* the run is not aborted, and once it has returned every match of the
\* valid pattern is covered.
C9_InvalidPatternIsDropped ==
    (faults = 0 /\ run = 1 /\ \E pat \in Range(custom_regex) : CompileFails(pat))
        => /\ ~Aborted
           /\ pc = "returned" => CustomPatternRects \subseteq covered

\* C10: when marking a rectangle or applying the removal raised, the run is
\* not aborted, and by the time the document is saved draw_rect has been
\* called for the rectangle whose marking failed.
C10_RemovalFailureIsLocal ==
    \A f \in fail_log :
        f.op \in {"add_redact_annot", "apply_redactions"}
            => /\ ~Aborted
               /\ (f.op = "add_redact_annot" /\ pc \in {"saved", "returned"})
                      => f.at \in draw_attempts

\* C11: on every exit of redact_pdf after the document was opened, by return
\* or by a propagated error, the document handle has been closed.
C11_HandleClosedOnExit ==
    (pc \in {"returned", "raised"} /\ handle # "unopened")
        => handle = "closed"

\* C12: when saving raised, the run fails: the error is propagated, nothing
\* was written and no report is returned; a report with status "success"
\* exists only once the save has completed.
C12_SaveFailureFailsRun ==
    /\ (\E f \in fail_log : f.op = "save")
          => (Aborted /\ report = NoReport /\ ~output.saved)
    /\ report.status = "success" => output.saved

C12_Witness ==
    /\ pc = "raised"
    /\ [op |-> "save", at |-> 0] \in fail_log
    /\ covered # {}
    /\ report = NoReport

\* redact_pdf has built the list of strings it searches for
Planned ==
    pc \in {"process_pages", "redact_page", "redact_items", "save", "saved",
            "returned"}

\* the units whose detection result was merged into the entity set
MergedUnits ==
    {u \in units_done \cap DOMAIN unit_texts :
        [op |-> "analyze", at |-> u] \notin fail_log}

\* the detection results, as <<unit, start>>, whose text is e
DetectionsOf(e) ==
    UNION {{<<u, r.start>> :
               r \in {q \in Analyze(unit_texts[u]) :
                         Slice(unit_texts[u], q.start, q.end) = e}} :
              u \in MergedUnits}

\* the listing of the merged entity set that redact_pdf goes on with
DetectedListing ==
    IF variant = "Guardian"
    THEN SubSeq(keywords, 1, Cardinality(detected_entities))
    ELSE keywords

\* C13: however many detection results, in however many units, carry the
\* same text, the merged entity set lists that text exactly once; texts that
\* differ, if only by case, are listed separately.
C13_DetectedListedOnce ==
    Planned =>
        \A e \in detected_entities :
            /\ DetectionsOf(e) # {}
            /\ Cardinality({i \in DOMAIN DetectedListing : DetectedListing[i] = e}) = 1

C13_Witness ==
    /\ Planned
    /\ \E e \in detected_entities :
          /\ \E d1, d2 \in DetectionsOf(e) : d1[1] # d2[1]
          /\ Cardinality({i \in DOMAIN DetectedListing : DetectedListing[i] = e}) = 1

\* C14: no text of a detection result whose length, trimmed of whitespace,
\* is 2 or less is in the entity set that is searched for and redacted.
C14_ShortEntitiesFiltered ==
    \A e \in detected_entities : CharLen(Strip(e)) > 2

\* C15: when only searches for an entity string on a page have raised, the
\* run is not aborted: the occurrence is skipped and redact_pdf goes on to
\* save and to return its report.
C15_SearchFailureIsLocal ==
    (fail_log # {} /\ \A f \in fail_log : f.op = "search") => ~Aborted

\* C17: when draw_rect raised for one rectangle, every other rectangle that
\* the searches located (of the same string on that page, of other strings,
\* of pattern matches, on other pages) is marked, has its text removed and
\* is covered in the document guardian's redact_pdf saves.
C17_DrawFailureIsLocal ==
    (variant = "Guardian" /\ pc \in {"saved", "returned"})
        => \A f \in fail_log :
              f.op = "draw_rect"
                  => \A r \in areas \ {f.at} :
                        r \in covered /\ Cells(r) \subseteq removed

\* the entities of the buffer that a cut at index L would split: <<s, e>>
\* with s < L < e, full[s:e] free of sentence ends and line breaks
SplitByHardCut(full, L) ==
    {se \in (0..Len(full)) \X (0..Len(full)) :
        /\ se[1] < L
        /\ L < se[2]
        /\ \A i \in se[1]..(se[2] - 1) : full[i + 1] \notin {".", "\n"}}

\* lines 57-59: the search finds a sentence end or a line break
BoundaryAvailable(full, L) ==
    RFind(full, ".", 0, L) # -1 \/ RFind(full, "\n", 0, L) # -1

\* C16: in an iteration whose buffer holds an entity that a cut at
\* chunk_size would split, with a boundary available to the search, the
\* split does not fall strictly inside the entity, and the iteration hands
\* the entity on (it takes text out of the buffer, or the entity is in the
\* chunk it cuts off), so that the entity comes out whole in one chunk.
C16_StraddlingEntityKeptWhole ==
    (cpc = "while" /\ Len(full_text) >= chunk_size
                   /\ BoundaryAvailable(full_text, chunk_size))
        => LET split_pos == SplitPos(full_text, chunk_size)
           IN  \A se \in SplitByHardCut(full_text, chunk_size) :
                  /\ ~(se[1] < split_pos /\ split_pos < se[2])
                  /\ \/ se[2] <= split_pos
                     \/ RestAfter(full_text, split_pos) # full_text

\* every page's loops have ended and no redaction step is pending
AllPagesFinished ==
    /\ page_queue = <<>>
    /\ items = <<>>
    /\ targets = <<>>
    /\ rects = <<>>
    /\ marked = {}

C18_Counts ==
    /\ opens <= 1
    /\ saves <= 1
    /\ handle # "unopened" => opens = 1
    /\ pc \notin {"start", "verified", "except", "raised"} => opens = 1
    /\ saves = 1 => AllPagesFinished
    /\ pc = "returned" => (saves = 1 /\ handle = "closed")

C18_Steps ==
    run' = run =>
        /\ saves = 1 => docstate' = docstate
        /\ saves' # saves => handle = "open"
        /\ (handle = "open" /\ handle' = "closed") => (saves = 1 \/ Aborted)

\* C18: in every run that comes to fitz.open the document is opened exactly
\* once, and none opens it twice; it is saved at most once; the save comes
\* only when the redaction steps of every page have ended, no page is
\* mutated after it, and the close follows it.
C18_OpenRedactSaveClose ==
    [] C18_Counts /\ [][C18_Steps]_vars

\* C18 as stated: every run that has ended, by return or by a propagated
\* error, opened the document exactly once.
C18_OpenedInEveryRun ==
    pc \in {"returned", "raised"} => opens = 1

C18_Witness ==
    /\ variant \in {"Guardian", "PresidioSeq"}
    /\ pc = "returned"
    /\ Len(pages) = 2
    /\ opens = 1
    /\ saves = 1
    /\ handle = "closed"
    /\ \E r1, r2 \in output.covered : r1.page # r2.page

\* every task handed to the pool has completed
AllWorkersDone ==
    /\ \A u \in DOMAIN chunk_futures : chunk_futures[u].state = "done"
    /\ page_futures # <<>>
    /\ \A p \in DOMAIN page_futures : page_futures[p].state = "done"

\* the rectangles a step adds to or takes from the document
Mutated ==
    (covered' \ covered) \cup (marked' \ marked) \cup (marked \ marked')

C19_Steps ==
    (variant = "PresidioPar" /\ run' = run) =>
        /\ pool' # pool => docstate' = docstate
        /\ docstate' # docstate =>
              /\ pool' = pool
              /\ AllWorkersDone
              /\ pc = "redact_items"
              /\ Cardinality(Mutated) = 1
              /\ \A r \in Mutated : r.page = CurrentPage
              /\ removed' = removed

\* C19: in the parallel pipeline the steps of the pool workers
\* (analyze_text_chunk, process_page) never change the document; every
\* change to a page is a step of the orchestrating process, taken after all
\* workers have completed, and changes one rectangle of one page.
C19_SingleWriter ==
    [][C19_Steps]_vars

C19_Witness ==
    /\ variant = "PresidioPar"
    /\ pc = "redact_items"
    /\ Len(pages) = 2
    /\ Len(chunk_futures) >= 2
    /\ AllWorkersDone
    /\ \E r1, r2 \in covered : r1.page # r2.page

C20_Steps ==
    (variant = "PresidioPar" /\ run' = run
                             /\ detected_entities' # detected_entities) =>
        /\ chunk_futures' = chunk_futures
        /\ \E u \in DOMAIN chunk_futures \ units_done :
              /\ chunk_futures[u].state = "done"
              /\ units_done' = units_done \cup {u}
              /\ detected_entities' =
                    detected_entities \cup chunk_futures[u].result

\* C20: the entity set changes only in a step of the orchestrating process
\* that merges the result of exactly one completed detection unit; a step
\* in which a worker completes its unit leaves the set as it was.
C20_MergeByOrchestrator ==
    [][C20_Steps]_vars

C20_Witness ==
    /\ variant = "PresidioPar"
    /\ pc = "detect"
    /\ Cardinality(units_done) >= 2
    /\ Cardinality(detected_entities) >= 2
    /\ \E u \in DOMAIN chunk_futures \ units_done :
          chunk_futures[u].state = "running"

\* the indices below L at which full holds the character c
IndicesOf(full, c, L) ==
    {i \in 0..(Min(L, Len(full)) - 1) : full[i + 1] = c}

\* the split index of the specification: the greatest index of a "." among
\* the first L characters, else that of a line break, else L
NaturalBoundary(full, L) ==
    IF IndicesOf(full, ".", L) # {}
    THEN CHOOSE i \in IndicesOf(full, ".", L) :
            \A j \in IndicesOf(full, ".", L) : j <= i
    ELSE IF IndicesOf(full, "\n", L) # {}
         THEN CHOOSE i \in IndicesOf(full, "\n", L) :
                 \A j \in IndicesOf(full, "\n", L) : j <= i
         ELSE L

\* C21: an iteration of the chunking loop, entered with at least chunk_size
\* characters buffered, cuts the buffer at the greatest index of a "." in
\* its first chunk_size characters, else at the greatest index of a line
\* break there, else at chunk_size: the chunk it appends is the text before
\* that index and the buffer keeps the text from that index on.
C21_SplitAtNaturalBoundary ==
    [][(cpc = "while" /\ chunk_texts' # chunk_texts)
          => LET at == NaturalBoundary(full_text, chunk_size)
             IN  /\ Len(full_text) >= chunk_size
                 /\ chunk_texts' = Append(chunk_texts, Slice(full_text, 0, at))
                 /\ full_text' = SliceFrom(full_text, at)]_vars

C21_Witness ==
    /\ cpc = "done"
    /\ Len(chunk_texts) = 2
    /\ LET first == doc_texts[1]
       IN  /\ Len(first) >= chunk_size
           /\ IndicesOf(first, ".", chunk_size) # {}
           /\ \E n \in IndicesOf(first, "\n", chunk_size) :
                 n > NaturalBoundary(first, chunk_size)
           /\ Len(chunk_texts[1]) = NaturalBoundary(first, chunk_size)
           /\ Len(chunk_texts[1]) > 0

\* the next call of the page loops is page.search_for(Head(targets))
SearchPoint ==
    /\ pc = "redact_items"
    /\ rects = <<>>
    /\ targets # <<>>

\* the text of the current page as it was read for deriving search strings:
\* guardian's page_text (line 110), the page_text handed to process_page
\* (presidio new_pdf_redactor.py, lines 149-151)
Snapshot ==
    IF variant = "Guardian" THEN page_text
    ELSE page_futures[CurrentPage].text

\* C22: whenever a search is issued on a page (guardian, parallel presidio),
\* the text that was read from the page to derive search strings or offsets
\* is still the page's text, and in the parallel pipeline the string cut out
\* at the recorded offsets is one of the entity strings that were matched.
C22_SearchOnCurrentText ==
    (SearchPoint /\ variant \in {"Guardian", "PresidioPar"})
        => /\ Snapshot = GetText(CurrentPage)
           /\ variant = "PresidioPar" => Head(targets) \in Range(keywords)

C22_Witness ==
    /\ SearchPoint
    /\ variant = "Guardian"
    /\ Head(targets) = <<"PIN42">>
    /\ \E r \in marked \cap covered : r.page = CurrentPage
    /\ Snapshot = GetText(CurrentPage)

\* the patterns redact_pdf applies: guardian's defaults and the caller's,
\* those that compile (lines 89-105); in the presidio variants the caller's
\* in their order up to the first one re.finditer raises on
PatternsInUse ==
    IF variant = "Guardian"
    THEN {pat \in Range(default_regex_patterns) \cup Range(custom_regex) :
             Compiles(pat)}
    ELSE {custom_regex[i] : i \in {j \in DOMAIN custom_regex :
             \A k \in 1..j : Compiles(custom_regex[k])}}

\* the text of page p of the document this run was given: the second run
\* reads the first run's saved output
RunText(p) ==
    [i \in 1..Len(pages[p]) |->
        IF <<p, i - 1>> \in first_run.removed THEN Blank ELSE pages[p][i]]

\* the strings that are matches of a pattern inside the text of one page
SinglePageMatches ==
    UNION {{Slice(RunText(p), m.start, m.end) :
               m \in Range(FindIter(pat, RunText(p)))} :
              p \in 1..Len(pages), pat \in PatternsInUse}

\* the search strings that come from patterns: guardian searches them
\* without listing them as keywords, the presidio variants add them to
\* all_entities
PatternDerived ==
    IF variant = "Guardian"
    THEN targeted \ Range(keywords)
    ELSE Range(keywords) \ (detected_entities \cup Range(additional_keywords))

\* C23: every entity string derived from a pattern is a match of that
\* pattern inside the text of a single page; none is a match over the texts
\* of several pages put end to end.
C23_PatternMatchesWithinPage ==
    PatternDerived \subseteq SinglePageMatches

\* the chunks whose analysis raised inside analyze_text_chunk
FailedUnits ==
    {u \in DOMAIN unit_texts : [op |-> "analyze", at |-> u] \in fail_log}

\* the union of the entity sets of the chunks: a chunk whose analysis
\* failed contributes nothing
UnionOfChunkEntities ==
    UNION {ExtractEntities(Analyze(unit_texts[u]), unit_texts[u]) :
              u \in DOMAIN unit_texts \ FailedUnits}

\* C24: in whatever order the chunks' analyses complete and are merged, the
\* entity set holds the union of the results merged so far, and once every
\* chunk is merged it is the union of the per-chunk entity sets, a function
\* of the chunk list and of which analyses failed alone.
C24_CompletionOrderIrrelevant ==
    (variant = "PresidioPar" /\ pc \in {"detect", "process_pages"}) =>
        /\ detected_entities =
              UNION {chunk_futures[u].result : u \in units_done}
        /\ units_done = DOMAIN unit_texts
              => detected_entities = UnionOfChunkEntities

C24_Witness ==
    /\ variant = "PresidioPar"
    /\ pc = "process_pages"
    /\ Len(unit_texts) >= 3
    /\ FailedUnits # {}
    /\ \E u, v \in DOMAIN chunk_futures :
          /\ chunk_futures[u].result # {}
          /\ chunk_futures[v].result # {}
          /\ chunk_futures[u].result # chunk_futures[v].result
    /\ detected_entities = UnionOfChunkEntities

\* C25: after the answer 'y' every listed change is applied: the recorded
\* path of each entry exists when the apply loop comes to it, so the loop
\* never raises, also when an earlier entry has renamed the directory that
\* holds the path; after any other answer nothing is written or renamed.
C25_ListedChangesApply ==
    /\ (rpc = "apply" /\ applied < Len(changes))
          => changes[applied + 1].old \in fs_dirs \cup DOMAIN fs_files
    /\ rpc # "raised"
    /\ (rpc = "done" /\ StripLower(confirm) # "y") => fs_ops = 0

====
